---- MODULE Spec2Model ----
(***************************************************************************)
(* Model of src/lib/executors/Node.ts: the FunctionQueue that bounds the   *)
(* number of concurrently running session suites, and the run lifecycle of *)
(* the Node executor (_beforeRun, the test phase, _afterRun).              *)
(*                                                                         *)
(* Tasks are @dojo/core Tasks.  A Task is Pending, Fulfilled, Rejected or  *)
(* Canceled.  Callbacks of then() run in a later microtask; cancel() runs  *)
(* synchronously and calls the callbacks registered with finally().        *)
(***************************************************************************)
EXTENDS Integers, Sequences, FiniteSets, TLC

\* Bounds of the model
MaxJobs == 4
MaxConc == 2
MaxClears == 1
MaxEnvs == 2
MaxSuites == 1
MaxNodes == 3
MaxFailed == 1
MaxSessions == 2
MaxPayloads == 2
MaxCalls == 1
MaxRemovals == 2

Jobs == 1..MaxJobs

VARIABLES
    maxConcurrency, \* FunctionQueue.maxConcurrency
    queue,          \* FunctionQueue.queue: backlog of entries (job ids), FIFO
    activeTasks,    \* FunctionQueue.activeTasks: the tasks func().then().finally()
    funcTasks,      \* FunctionQueue.funcTasks: the handles returned by enqueue
    job,            \* state of the Task returned by each job's func()
    chain,          \* progress of func().then(resolve, reject).finally(cb)
    funcTask,       \* state of each handle returned by enqueue
    started,        \* history: the job ids in the order func() was invoked
    enqueued,       \* history: number of enqueue() calls so far
    cleared,        \* history: number of clear() calls so far
    config,         \* Node.config: the options the run decides on
    phase,          \* position of the run
    server,         \* Node.server is set
    tunnel,         \* Node.tunnel is set
    sessionSuites,  \* Node._sessionSuites: -1 while unset, else their number
    serverStart,    \* state of the promise of server.start()
    tunnelStart,    \* state of the promise of tunnel.start()
    serverStop,     \* state of the promise of server.stop()
    tunnelStop,     \* state of the promise of tunnel.stop()
    allRejected,    \* the stop whose failure rejected Promise.all(promises)
    runError,       \* the failure the run ends with
    tests,          \* position of the chain of tasks inside _runTests
    runTask,        \* state of runTask, the Task made by _runRemoteTests
    canceled,       \* the Task returned by _runTests was canceled
    log,            \* history: calls made on the collaborators and events emitted
    suite,          \* the tree of a session suite with the results of its tests
    leaveRemoteOpen, \* config.leaveRemoteOpen: "true", "false" or "fail"
    session,        \* state of the promise of leadfootServer.createSession()
    remote,         \* suite.remote is set
    sessionId,      \* remote.session.sessionId, 0 while there is no session
    sphase,         \* position of the session suite
    slog,           \* history: calls made by the hooks of the session suite
    afterRemote,    \* remote, local of after(): it found suite.remote set
    reported,       \* history: the job states sent to the tunnel
    coverageFiles,  \* Node._coverageFiles
    coverageMap,    \* Node._coverageMap: the files it holds, as files() gives them
    instrumentedMaps, \* Node._instrumentedMaps: files with a registered map
    fileKind,       \* what reading and instrumenting each file results in
    loaded,         \* the files the loader has passed to the hooks
    warnings,       \* history: the files a 'warning' event was emitted for
    coveredFiles,   \* coveredFiles, local of the callback in _runTests
    attempts,       \* history: the files that callback tried to read
    baselines,      \* history: the files whose baseline addFileCoverage was given
    events,         \* history: number of 'coverage' events the listener handled
    directCalls,    \* history: number of instrumentCode calls of other callers
    cphase,         \* position of the test phase
    testsResult,    \* how the tests ended: the Task made in _runTests
    testsOutcome,   \* how the Task returned by _runTests ended
    returned,       \* history: the file and the result of each instrumentCode
    vmHook,         \* the hook of runInThisContext is installed
    requireHook,    \* the hook of require is installed
    unhookRequire,  \* Node._unhookRequire holds the function that removes it
    unhookCalls,    \* history: number of calls of that function
    removals        \* history: number of _removeInstrumentationHooks calls

qvars == <<maxConcurrency, queue, activeTasks, funcTasks, job, chain,
           funcTask, started, enqueued, cleared>>

lvars == <<config, phase, server, tunnel, sessionSuites, serverStart,
           tunnelStart, serverStop, tunnelStop, allRejected, runError,
           tests, runTask, canceled, log>>

\* svars, cvars and hvars: the variables the FunctionQueue and the run do not touch
svars == <<suite, leaveRemoteOpen, session, remote, sessionId, sphase, slog,
           afterRemote, reported>>

cvars == <<coverageFiles, coverageMap, instrumentedMaps, fileKind, loaded,
           warnings, coveredFiles, attempts, baselines, events,
           directCalls, cphase, testsResult, testsOutcome, returned>>

\* cvars without cphase
cvars_but_cphase ==
    <<coverageFiles, coverageMap, instrumentedMaps, fileKind, loaded,
      warnings, coveredFiles, attempts, baselines, events, directCalls,
      testsResult, testsOutcome, returned>>

hvars == <<vmHook, requireHook, unhookRequire, unhookCalls, removals>>

xvars == <<svars, cvars, hvars>>

vars == <<maxConcurrency, queue, activeTasks, funcTasks, job, chain,
          funcTask, started, enqueued, cleared, config, phase, server,
          tunnel, sessionSuites, serverStart, tunnelStart, serverStop,
          tunnelStop, allRejected, runError, tests, runTask, canceled, log,
          suite, leaveRemoteOpen, session, remote, sessionId, sphase, slog,
          afterRemote, reported,
          coverageFiles, coverageMap, instrumentedMaps, fileKind, loaded,
          warnings, coveredFiles, attempts, baselines, events,
          directCalls, cphase,
          testsResult, testsOutcome, returned, vmHook, requireHook,
          unhookRequire, unhookCalls, removals>>

Range(s) == {s[i] : i \in 1..Len(s)}

\* The queue object together with the tasks it refers to
World ==
    [maxConcurrency |-> maxConcurrency, queue |-> queue,
     activeTasks |-> activeTasks, funcTasks |-> funcTasks, job |-> job,
     chain |-> chain, funcTask |-> funcTask, started |-> started]

\* pullFromArray(haystack, needle): removes every occurrence, in place
pullFromArray(haystack, needle) ==
    SelectSeq(haystack, LAMBDA x : x # needle)

\* new FunctionQueue(maxConcurrency)
FunctionQueue(m) ==
    [maxConcurrency |-> m, queue |-> <<>>, activeTasks |-> <<>>,
     funcTasks |-> <<>>,
     job |-> [j \in Jobs |-> "unstarted"],
     chain |-> [j \in Jobs |-> "none"],
     funcTask |-> [j \in Jobs |-> "none"],
     started |-> <<>>]

\* Mutant of next: takes the most recently queued entry
next_lifo(w) ==
    IF Len(w.queue) > 0
    THEN LET j == w.queue[Len(w.queue)] IN
         [w EXCEPT !.queue = SubSeq(@, 1, Len(@) - 1),
                   !.job[j] = "running",
                   !.chain[j] = "pending",
                   !.started = Append(@, j),
                   !.activeTasks = Append(@, j)]
    ELSE w

\* FunctionQueue.next(): start the entry at the head of the backlog
next(w) ==
    IF Len(w.queue) > 0
    THEN LET j == Head(w.queue) IN
         [w EXCEPT !.queue = Tail(@),
                   !.job[j] = "running",
                   !.chain[j] = "pending",
                   !.started = Append(@, j),
                   !.activeTasks = Append(@, j)]
    ELSE w

\* Mutant of enqueue: off-by-one in the concurrency test
enqueue_offByOne(w, j) ==
    LET w1 == [w EXCEPT !.queue = Append(@, j),
                        !.funcTask[j] = "pending",
                        !.funcTasks = Append(@, j)]
    IN  IF Len(w1.activeTasks) <= w1.maxConcurrency THEN next(w1) ELSE w1

\* FunctionQueue.enqueue(func): j names func and the handle created for it
enqueue(w, j) ==
    LET w1 == [w EXCEPT !.queue = Append(@, j),
                        !.funcTask[j] = "pending",
                        !.funcTasks = Append(@, j)]
    IN  IF Len(w1.activeTasks) < w1.maxConcurrency THEN next(w1) ELSE w1

\* Mutant of finallyCallback: the task is removed and nothing is promoted
finallyCallback_noPromote(w, j) ==
    [w EXCEPT !.activeTasks = pullFromArray(@, j)]

\* The callback given to finally(): pullFromArray(activeTasks, task); next()
finallyCallback(w, j) ==
    next([w EXCEPT !.activeTasks = pullFromArray(@, j)])

\* task.cancel() on an element of activeTasks.  A task that is not Pending
\* ignores cancel().  Otherwise the cancellation goes up to the first
\* pending parent (the job's Task while it runs) and comes down the chain,
\* where the finally() callback is run synchronously.
cancelActive(w, j) ==
    IF w.chain[j] \in {"pending", "handled"}
    THEN finallyCallback(
             [w EXCEPT !.job[j] = IF @ = "running" THEN "canceled" ELSE @,
                       !.chain[j] = "canceled"], j)
    ELSE w

\* this.activeTasks.forEach(task => task.cancel()): forEach visits the
\* indices below the length the array had at the start and skips an index
\* the array no longer has; the callback changes the array while it runs.
RECURSIVE cancelActiveTasks(_, _, _)
cancelActiveTasks(w, k, n) ==
    IF k > n THEN w
    ELSE IF k > Len(w.activeTasks) THEN cancelActiveTasks(w, k + 1, n)
    ELSE cancelActiveTasks(cancelActive(w, w.activeTasks[k]), k + 1, n)

\* this.funcTasks.forEach(task => task.cancel())
cancelFuncTasks(w) ==
    [w EXCEPT !.funcTask =
        [j \in Jobs |-> IF j \in Range(w.funcTasks) /\ w.funcTask[j] = "pending"
                        THEN "canceled" ELSE w.funcTask[j]]]

\* FunctionQueue.clear()
clear(w) ==
    LET w1 == cancelActiveTasks(w, 1, Len(w.activeTasks))
        w2 == cancelFuncTasks(w1)
    IN  [w2 EXCEPT !.activeTasks = <<>>, !.funcTasks = <<>>, !.queue = <<>>]

SetWorld(w) ==
    /\ maxConcurrency' = w.maxConcurrency
    /\ queue' = w.queue
    /\ activeTasks' = w.activeTasks
    /\ funcTasks' = w.funcTasks
    /\ job' = w.job
    /\ chain' = w.chain
    /\ funcTask' = w.funcTask
    /\ started' = w.started

\* No session suite is looked at
SIdle ==
    /\ suite = [size |-> 0, parent |-> <<>>, error |-> <<>>, failed |-> <<>>]
    /\ leaveRemoteOpen = "false"
    /\ session = "none"
    /\ remote = FALSE
    /\ sessionId = 0
    /\ sphase = "idle"
    /\ slog = <<>>
    /\ afterRemote = FALSE
    /\ reported = <<>>

\* A path is the sequence of its segments below the root.  path.resolve
\* and path.normalize both remove each ".." with the segment before it.
RECURSIVE collapse(_, _)
collapse(done, rest) ==
    IF rest = <<>> THEN done
    ELSE IF Head(rest) = ".."
         THEN collapse(IF done = <<>> THEN <<>>
                       ELSE SubSeq(done, 1, Len(done) - 1), Tail(rest))
         ELSE collapse(Append(done, Head(rest)), Tail(rest))

resolve(path) == collapse(<<>>, path)

normalize(filename) == collapse(<<>>, filename)

\* The entries config.coverage expands to
RawPaths == {<<"a">>, <<"b">>, <<"b", "..", "a">>}

\* The files there are, by their absolute paths
Files == {resolve(path) : path \in RawPaths}

\* What happens to a file: it cannot be read, readSourceMap throws on it,
\* the instrumenter throws on it, or it is instrumented
Kinds == {"unreadable", "badSourceMap", "badCode", "ok"}

\* No coverage is looked at
CIdle ==
    /\ coverageFiles = <<>>
    /\ coverageMap = {}
    /\ instrumentedMaps = {}
    /\ fileKind = [f \in Files |-> "ok"]
    /\ loaded = {}
    /\ warnings = <<>>
    /\ coveredFiles = {}
    /\ attempts = <<>>
    /\ baselines = <<>>
    /\ events = 0
    /\ directCalls = 0
    /\ cphase = "idle"
    /\ testsResult = "none"
    /\ testsOutcome = "none"
    /\ returned = <<>>

\* No hook is installed
HIdle ==
    /\ vmHook = FALSE
    /\ requireHook = FALSE
    /\ unhookRequire = FALSE
    /\ unhookCalls = 0
    /\ removals = 0

----------------------------------------------------------------------------
\* The FunctionQueue under an arbitrary client

QInit ==
    /\ \E m \in 1..MaxConc : maxConcurrency = m
    /\ queue = <<>>
    /\ activeTasks = <<>>
    /\ funcTasks = <<>>
    /\ job = [j \in Jobs |-> "unstarted"]
    /\ chain = [j \in Jobs |-> "none"]
    /\ funcTask = [j \in Jobs |-> "none"]
    /\ started = <<>>
    /\ enqueued = 0
    /\ cleared = 0
    /\ config = [environments |-> 0, functionalSuites |-> 0, suites |-> 0,
                 browserSuites |-> 0, serveOnly |-> FALSE,
                 functionalCoverage |-> TRUE]
    /\ phase = "queueOnly"
    /\ server = FALSE
    /\ tunnel = FALSE
    /\ sessionSuites = -1
    /\ serverStart = "none"
    /\ tunnelStart = "none"
    /\ serverStop = "none"
    /\ tunnelStop = "none"
    /\ allRejected = "none"
    /\ runError = "none"
    /\ tests = "idle"
    /\ runTask = "none"
    /\ canceled = FALSE
    /\ log = <<>>
    /\ SIdle
    /\ CIdle
    /\ HIdle

\* A client calls enqueue(func)
Enqueue ==
    /\ enqueued < MaxJobs
    /\ SetWorld(enqueue(World, enqueued + 1))
    /\ enqueued' = enqueued + 1
    /\ UNCHANGED <<cleared, lvars, xvars>>

\* A client calls clear()
Clear ==
    /\ cleared < MaxClears
    /\ SetWorld(clear(World))
    /\ cleared' = cleared + 1
    /\ UNCHANGED <<enqueued, lvars, xvars>>

\* The Task returned by func() settles
JobSettles(j, outcome) ==
    /\ job[j] = "running"
    /\ job' = [job EXCEPT ![j] = outcome]
    /\ UNCHANGED <<maxConcurrency, queue, activeTasks, funcTasks, chain,
                   funcTask, started, enqueued, cleared, lvars, xvars>>

\* Mutant of ThenCallback: the handle is resolved whatever the job did
ThenCallback_alwaysResolve(j) ==
    /\ job[j] \in {"resolved", "rejected"}
    /\ chain[j] = "pending"
    /\ chain' = [chain EXCEPT ![j] = "handled"]
    /\ funcTask' = [funcTask EXCEPT ![j] =
                        IF @ = "pending" THEN "resolved" ELSE @]
    /\ UNCHANGED <<maxConcurrency, queue, activeTasks, funcTasks, job,
                   started, enqueued, cleared, lvars, xvars>>

\* Mutant of ThenCallback: the rejection of a job is not passed on
ThenCallback_ignoreRejection(j) ==
    /\ job[j] \in {"resolved", "rejected"}
    /\ chain[j] = "pending"
    /\ chain' = [chain EXCEPT ![j] = "handled"]
    /\ funcTask' = [funcTask EXCEPT ![j] =
                        IF @ = "pending" /\ job[j] = "resolved"
                        THEN "resolved" ELSE @]
    /\ UNCHANGED <<maxConcurrency, queue, activeTasks, funcTasks, job,
                   started, enqueued, cleared, lvars, xvars>>

\* The callbacks of func().then(resolve, reject) run: the handle is settled
\* as the job was; resolve and reject of a canceled handle do nothing
ThenCallback(j) ==
    /\ job[j] \in {"resolved", "rejected"}
    /\ chain[j] = "pending"
    /\ chain' = [chain EXCEPT ![j] = "handled"]
    /\ funcTask' = [funcTask EXCEPT ![j] =
                        IF @ = "pending" THEN job[j] ELSE @]
    /\ UNCHANGED <<maxConcurrency, queue, activeTasks, funcTasks, job,
                   started, enqueued, cleared, lvars, xvars>>

\* Mutant of FinallyCallback: the next entry is promoted only after a success
FinallyCallback_stopOnFailure(j) ==
    /\ chain[j] = "handled"
    /\ LET w == [World EXCEPT !.chain[j] = "done"] IN
       SetWorld(IF job[j] = "rejected"
                THEN [w EXCEPT !.activeTasks = pullFromArray(@, j)]
                ELSE finallyCallback(w, j))
    /\ UNCHANGED <<enqueued, cleared, lvars, xvars>>

\* The callback of .finally() runs after the handle was settled
FinallyCallback(j) ==
    /\ chain[j] = "handled"
    /\ SetWorld(finallyCallback([World EXCEPT !.chain[j] = "done"], j))
    /\ UNCHANGED <<enqueued, cleared, lvars, xvars>>

QNext ==
    \/ Enqueue
    \/ Clear
    \/ \E j \in Jobs : JobSettles(j, "resolved")
    \/ \E j \in Jobs : JobSettles(j, "rejected")
    \/ \E j \in Jobs : ThenCallback(j)
    \/ \E j \in Jobs : FinallyCallback(j)

QueueSpec == QInit /\ [][QNext]_vars

\* The FunctionQueue when clear() is never called
LNext ==
    \/ Enqueue
    \/ \E j \in Jobs : JobSettles(j, "resolved")
    \/ \E j \in Jobs : JobSettles(j, "rejected")
    \/ \E j \in Jobs : ThenCallback(j)
    \/ \E j \in Jobs : FinallyCallback(j)

\* Every started job settles in the end, and the callbacks of a settled
\* Task are run: the microtask queue is drained
Fairness ==
    \A j \in Jobs :
        /\ WF_vars(JobSettles(j, "resolved") \/ JobSettles(j, "rejected"))
        /\ WF_vars(ThenCallback(j))
        /\ WF_vars(FinallyCallback(j))

QueueLiveSpec == QInit /\ [][LNext]_vars /\ Fairness

----------------------------------------------------------------------------
\* The run of the Node executor

Count(l, e) == Cardinality({i \in 1..Len(l) : l[i] = e})

\* Position of the first e in l, 0 when there is none
IndexOf(l, e) ==
    IF \E i \in 1..Len(l) : l[i] = e
    THEN CHOOSE i \in 1..Len(l) : l[i] = e /\ \A k \in 1..(i - 1) : l[k] # e
    ELSE 0

Configs ==
    [environments : 0..MaxEnvs, functionalSuites : 0..MaxSuites,
     suites : 0..MaxSuites, browserSuites : 0..MaxSuites,
     serveOnly : BOOLEAN, functionalCoverage : BOOLEAN]

\* Mutant of Engaged: the declared suites are not looked at
Engaged_environmentsOnly(c) ==
    \/ c.environments > 0
    \/ c.serveOnly

\* The condition under which _beforeRun starts a server
Engaged(c) ==
    \/ /\ c.environments > 0
       /\ c.functionalSuites + c.suites + c.browserSuites > 0
    \/ c.serveOnly

\* Executor.run: _afterRun is chained with finally() behind _beforeRun and
\* the test phase, so it runs once when they have resolved or rejected
EnterAfterRun(err) ==
    /\ phase' = "afterRun"
    /\ runError' = IF runError = "none" THEN err ELSE runError

\* Executor.run: the tests are run when _beforeRun resolved to false
EnterRunTests ==
    /\ phase' = "runTests"
    /\ tests' = "runLocal"
    /\ UNCHANGED runError

RInit ==
    /\ \E m \in 1..MaxConc : maxConcurrency = m
    /\ queue = <<>>
    /\ activeTasks = <<>>
    /\ funcTasks = <<>>
    /\ job = [j \in Jobs |-> "unstarted"]
    /\ chain = [j \in Jobs |-> "none"]
    /\ funcTask = [j \in Jobs |-> "none"]
    /\ started = <<>>
    /\ enqueued = 0
    /\ cleared = 0
    /\ config \in Configs
    /\ phase = "beforeRun"
    /\ server = FALSE
    /\ tunnel = FALSE
    /\ sessionSuites = -1
    /\ serverStart = "none"
    /\ tunnelStart = "none"
    /\ serverStop = "none"
    /\ tunnelStop = "none"
    /\ allRejected = "none"
    /\ runError = "none"
    /\ tests = "idle"
    /\ runTask = "none"
    /\ canceled = FALSE
    /\ log = <<>>
    /\ SIdle
    /\ CIdle
    /\ HIdle

\* _beforeRun: the entry decision; a Server is created and started
BeforeRun ==
    /\ phase = "beforeRun"
    /\ IF Engaged(config)
       THEN /\ serverStart' = "pending"
            /\ log' = Append(log, "server.start")
            /\ phase' = "serverStarting"
            /\ UNCHANGED runError
       ELSE /\ EnterRunTests
            /\ UNCHANGED <<serverStart, log>>
    /\ Engaged(config) => UNCHANGED tests
    /\ UNCHANGED <<xvars, qvars, runTask, canceled, config, server, tunnel, sessionSuites, tunnelStart,
                   serverStop, tunnelStop, allRejected>>

\* Mutant of ServerStartSucceeds: serveOnly is not looked at
ServerStartSucceeds_noServeOnly ==
    /\ phase = "serverStarting"
    /\ serverStart = "pending"
    /\ serverStart' = "ok"
    /\ server' = TRUE
    /\ log' = Append(log, "serverStart")
    /\ phase' = "createTunnel"
    /\ UNCHANGED <<xvars, qvars, tests, runTask, canceled, config, tunnel,
                   sessionSuites, tunnelStart, serverStop, tunnelStop,
                   allRejected, runError>>

\* server.start() resolved: this.server is set and serverStart is emitted
ServerStartSucceeds ==
    /\ phase = "serverStarting"
    /\ serverStart = "pending"
    /\ serverStart' = "ok"
    /\ server' = TRUE
    /\ log' = Append(log, "serverStart")
    /\ phase' = IF config.serveOnly THEN "serveOnly" ELSE "createTunnel"
    /\ UNCHANGED <<xvars, qvars, tests, runTask, canceled, config, tunnel, sessionSuites, tunnelStart,
                   serverStop, tunnelStop, allRejected, runError>>

\* server.start() rejected: serverTask is rejected, this.server stays unset
ServerStartFails ==
    /\ phase = "serverStarting"
    /\ serverStart = "pending"
    /\ serverStart' = "failed"
    /\ EnterAfterRun("serverStart")
    /\ UNCHANGED <<xvars, qvars, tests, runTask, canceled, config, server, tunnel, sessionSuites, tunnelStart,
                   serverStop, tunnelStop, allRejected, log>>

\* serveOnly: the Task that waits for SIGINT resolves to true (skip tests)
Sigint ==
    /\ phase = "serveOnly"
    /\ log' = Append(log, "SIGINT")
    /\ EnterAfterRun("none")
    /\ UNCHANGED <<xvars, qvars, tests, runTask, canceled, config, server, tunnel,
                   sessionSuites, serverStart, tunnelStart, serverStop,
                   tunnelStop, allRejected>>

\* The tunnel is constructed and assigned to this.tunnel, then
\* _createSessionSuites asks it for its environments; getTunnel throws for
\* a tunnel name that is not registered
CreateTunnel(ok) ==
    /\ phase = "createTunnel"
    /\ IF ok
       THEN /\ tunnel' = TRUE
            /\ log' = Append(log, "new Tunnel")
            /\ phase' = "creatingSessionSuites"
            /\ UNCHANGED runError
       ELSE /\ EnterAfterRun("tunnel")
            /\ UNCHANGED <<tunnel, log>>
    /\ UNCHANGED <<xvars, qvars, tests, runTask, canceled, config, server, sessionSuites, serverStart,
                   tunnelStart, serverStop, tunnelStop, allRejected>>

\* Mutant of SessionSuitesCreated: the tunnel is started before the session
\* suites are made
SessionSuitesCreated_tunnelFirst ==
    /\ phase = "creatingSessionSuites"
    /\ sessionSuites' = config.environments
    /\ tunnelStart' = "pending"
    /\ log' = log \o <<"tunnel.start", "sessionSuites">>
    /\ phase' = "sessionSuitesCreated"
    /\ UNCHANGED <<xvars, qvars, tests, runTask, canceled, config, server, tunnel,
                   serverStart, serverStop, tunnelStop, allRejected,
                   runError>>

\* _createSessionSuites: tunnel.getEnvironments() resolved and its callback
\* made one suite per resolved environment (one per declared environment
\* here)
SessionSuitesCreated ==
    /\ phase = "creatingSessionSuites"
    /\ sessionSuites' = config.environments
    /\ log' = Append(log, "sessionSuites")
    /\ phase' = "sessionSuitesCreated"
    /\ UNCHANGED <<xvars, qvars, tests, runTask, canceled, config, server,
                   tunnel, serverStart, tunnelStart, serverStop, tunnelStop,
                   allRejected, runError>>

\* The callback after _createSessionSuites(), in a later microtask:
\* tunnel.start() is called
StartTunnel ==
    /\ phase = "sessionSuitesCreated"
    /\ tunnelStart' = "pending"
    /\ log' = Append(log, "tunnel.start")
    /\ phase' = "tunnelStarting"
    /\ UNCHANGED <<xvars, qvars, tests, runTask, canceled, config, server,
                   tunnel, sessionSuites, serverStart, serverStop,
                   tunnelStop, allRejected, runError>>

\* tunnel.getEnvironments() rejected or resolveEnvironments threw
SessionSuitesFail ==
    /\ phase = "creatingSessionSuites"
    /\ EnterAfterRun("sessionSuites")
    /\ UNCHANGED <<xvars, qvars, tests, runTask, canceled, config, server, tunnel, sessionSuites, serverStart,
                   tunnelStart, serverStop, tunnelStop, allRejected, log>>

\* tunnel.start() resolved: tunnelStart is emitted, _beforeRun gives false
TunnelStartSucceeds ==
    /\ phase = "tunnelStarting"
    /\ tunnelStart = "pending"
    /\ tunnelStart' = "ok"
    /\ log' = Append(log, "tunnelStart")
    /\ EnterRunTests
    /\ UNCHANGED <<xvars, qvars, runTask, canceled, config, server, tunnel, sessionSuites, serverStart,
                   serverStop, tunnelStop, allRejected>>

\* tunnel.start() rejected
TunnelStartFails ==
    /\ phase = "tunnelStarting"
    /\ tunnelStart = "pending"
    /\ tunnelStart' = "failed"
    /\ EnterAfterRun("tunnelStart")
    /\ UNCHANGED <<xvars, qvars, tests, runTask, canceled, config, server, tunnel, sessionSuites, serverStart,
                   serverStop, tunnelStop, allRejected, log>>

\* _runTests: the callback of then(resolve, reject) settles the Task made
\* in _runTests.  A Task that was canceled ignores both.  The Task that
\* _runTests returned is still pending
TestsSettle(err) ==
    /\ tests' = IF canceled THEN "over"
                ELSE IF err = "none" THEN "resolved" ELSE "rejected"
    /\ UNCHANGED <<phase, runError>>

\* _runTests: the callback of finally() ran behind the settled Task; the
\* Task that _runTests returned is no longer Pending and a cancel() of it
\* does nothing from here on
RunTestsFinally ==
    /\ phase = "runTests"
    /\ tests \in {"resolved", "rejected"}
    /\ tests' = IF tests = "resolved" THEN "resolvedFinally"
                ELSE "rejectedFinally"
    /\ UNCHANGED <<xvars, qvars, runTask, canceled, config, phase, server,
                   tunnel, sessionSuites, serverStart, tunnelStart,
                   serverStop, tunnelStop, allRejected, runError, log>>

\* The Task that _runTests returned settles as the Task made in _runTests
\* did, and the run has its outcome
RunTestsSettle ==
    /\ phase = "runTests"
    /\ tests \in {"resolvedFinally", "rejectedFinally"}
    /\ tests' = "over"
    /\ EnterAfterRun(IF tests = "rejectedFinally" THEN "tests" ELSE "none")
    /\ UNCHANGED <<xvars, qvars, runTask, canceled, config, server, tunnel,
                   sessionSuites, serverStart, tunnelStart, serverStop,
                   tunnelStop, allRejected, log>>

\* _runTests: super._runTests() settled; without session suites the chain
\* is over, otherwise the functional suites are loaded
RunLocalTests(ok) ==
    /\ tests = "runLocal"
    /\ IF ~ok THEN TestsSettle("tests")
       ELSE IF sessionSuites = -1 THEN TestsSettle("none")
       ELSE tests' = "loadFunctional" /\ UNCHANGED <<phase, runError>>
    /\ UNCHANGED <<xvars, qvars, runTask, canceled, config, server, tunnel,
                   sessionSuites, serverStart, tunnelStart, serverStop,
                   tunnelStop, allRejected, log>>

\* _loadFunctionalSuites settled
LoadFunctionalSuites(ok) ==
    /\ tests = "loadFunctional"
    /\ IF ok THEN tests' = "runRemote" /\ UNCHANGED <<phase, runError>>
       ELSE TestsSettle("tests")
    /\ UNCHANGED <<xvars, qvars, runTask, canceled, config, server, tunnel,
                   sessionSuites, serverStart, tunnelStart, serverStop,
                   tunnelStop, allRejected, log>>

\* sessionSuites.map(suite => queue.enqueue(...)), in the order of the suites
RECURSIVE enqueueAll(_, _, _)
enqueueAll(w, k, n) ==
    IF k > n THEN w ELSE enqueueAll(enqueue(w, k), k + 1, n)

\* testTask = _runRemoteTests(): a FunctionQueue is made and every session
\* suite is enqueued in runTask; job j runs session suite j
RunRemoteTests ==
    /\ tests = "runRemote"
    /\ SetWorld(enqueueAll(FunctionQueue(maxConcurrency), 1, sessionSuites))
    /\ enqueued' = sessionSuites
    /\ tests' = "remoteRunning"
    /\ runTask' = "pending"
    /\ UNCHANGED <<xvars, cleared, canceled, config, phase, server, tunnel,
                   sessionSuites, serverStart, tunnelStart, serverStop,
                   tunnelStop, allRejected, runError, log>>

\* Task.all over the handles settled and its callback settles runTask: it
\* resolves when every handle is resolved and rejects as soon as one handle
\* is rejected
RemoteTestsSettle ==
    /\ tests = "remoteRunning"
    /\ \/ /\ \A j \in 1..sessionSuites : funcTask[j] = "resolved"
          /\ runTask' = "resolved"
       \/ /\ \E j \in 1..sessionSuites : funcTask[j] = "rejected"
          /\ runTask' = "rejected"
    /\ tests' = "runTaskSettled"
    /\ UNCHANGED <<xvars, qvars, canceled, config, phase, server, tunnel,
                   sessionSuites, serverStart, tunnelStart, serverStop,
                   tunnelStop, allRejected, runError, log>>

\* runTask.then(() => {}): the Task it returned settles in a later
\* microtask
RunTaskThen ==
    /\ tests = "runTaskSettled"
    /\ tests' = "thenRan"
    /\ UNCHANGED <<xvars, qvars, runTask, canceled, config, phase, server,
                   tunnel, sessionSuites, serverStart, tunnelStart,
                   serverStop, tunnelStop, allRejected, runError, log>>

\* The finally() callback of testTask, in a later microtask again: it
\* emits the coverage of the functional tests unless functionalCoverage is
\* false, and then testTask settles as runTask did
RunTaskFinally ==
    /\ tests = "thenRan"
    /\ IF config.functionalCoverage
       THEN /\ tests' = "emitCoverage"
            /\ log' = Append(log, "emitCoverage")
            /\ UNCHANGED <<phase, runError>>
       ELSE /\ TestsSettle(IF runTask = "rejected" THEN "tests" ELSE "none")
            /\ UNCHANGED log
    /\ UNCHANGED <<xvars, qvars, runTask, canceled, config, server, tunnel,
                   sessionSuites, serverStart, tunnelStart, serverStop,
                   tunnelStop, allRejected>>

\* _emitCoverage settled: testTask settles as runTask did
CoverageEmitted ==
    /\ tests = "emitCoverage"
    /\ TestsSettle(IF runTask = "rejected" THEN "tests" ELSE "none")
    /\ UNCHANGED <<xvars, qvars, runTask, canceled, config, server, tunnel,
                   sessionSuites, serverStart, tunnelStart, serverStop,
                   tunnelStop, allRejected, log>>

\* The Task returned by _runTests is canceled while the run waits for it.
\* Its canceler cancels testTask if that exists and is Pending.  While
\* runTask is Pending the cancellation goes up to runTask, whose canceler
\* calls queue.clear(), and comes down to testTask, whose finally()
\* callback is run.  Once runTask has settled it is not canceled and
\* clear() is not called: testTask is canceled and its finally() callback
\* run, unless that callback has run already, after which testTask is no
\* longer Pending and nothing is done.  Before testTask exists the
\* canceler does nothing either.  Where nothing is done the chain goes on.
\* When the Task made in _runTests has settled its canceler is not called:
\* the Task that _runTests returned is canceled, as long as the callback
\* of its finally() has not run.  The run ends canceled.
Cancel ==
    /\ phase = "runTests"
    /\ ~canceled
    /\ tests \notin {"resolvedFinally", "rejectedFinally"}
    /\ canceled' = TRUE
    /\ IF tests = "remoteRunning"
       THEN /\ SetWorld(clear(World))
            /\ cleared' = cleared + 1
            /\ runTask' = "canceled"
            /\ tests' = "canceled"
            /\ log' = log \o <<"queue.clear">>
                          \o (IF config.functionalCoverage
                              THEN <<"emitCoverage">> ELSE <<>>)
       ELSE IF tests \in {"runTaskSettled", "thenRan"}
       THEN /\ tests' = "canceled"
            /\ log' = log \o (IF config.functionalCoverage
                              THEN <<"emitCoverage">> ELSE <<>>)
            /\ UNCHANGED <<maxConcurrency, queue, activeTasks, funcTasks, job,
                           chain, funcTask, started, cleared, runTask>>
       ELSE UNCHANGED <<maxConcurrency, queue, activeTasks, funcTasks, job,
                        chain, funcTask, started, cleared, runTask, tests,
                        log>>
    /\ EnterAfterRun("canceled")
    /\ UNCHANGED <<xvars, enqueued, config, server, tunnel, sessionSuites,
                   serverStart, tunnelStart, serverStop, tunnelStop,
                   allRejected>>

\* Mutant of AfterRun: the tunnel is stopped before the server
AfterRun_tunnelFirst ==
    /\ phase = "afterRun"
    /\ phase' = "tearingDown"
    /\ log' = log \o <<"removeHooks">>
                  \o (IF tunnel THEN <<"tunnel.stop">> ELSE <<>>)
                  \o (IF server THEN <<"server.stop">> ELSE <<>>)
    /\ serverStop' = IF server THEN "pending" ELSE serverStop
    /\ tunnelStop' = IF tunnel THEN "pending" ELSE tunnelStop
    /\ UNCHANGED <<xvars, qvars, tests, runTask, canceled, config, server, tunnel, sessionSuites, serverStart,
                   tunnelStart, allRejected, runError>>

\* Mutant of AfterRun: the tunnel is not stopped
AfterRun_noTunnelStop ==
    /\ phase = "afterRun"
    /\ phase' = "tearingDown"
    /\ log' = log \o <<"removeHooks">>
                  \o (IF server THEN <<"server.stop">> ELSE <<>>)
    /\ serverStop' = IF server THEN "pending" ELSE serverStop
    /\ UNCHANGED <<xvars, qvars, tests, runTask, canceled, config, server, tunnel, sessionSuites, serverStart,
                   tunnelStart, tunnelStop, allRejected, runError>>

\* _afterRun: the hooks are removed, then server.stop() is called if
\* this.server is set and tunnel.stop() if this.tunnel is set; neither
\* call waits for the other
AfterRun ==
    /\ phase = "afterRun"
    /\ phase' = "tearingDown"
    /\ log' = log \o <<"removeHooks">>
                  \o (IF server THEN <<"server.stop">> ELSE <<>>)
                  \o (IF tunnel THEN <<"tunnel.stop">> ELSE <<>>)
    /\ serverStop' = IF server THEN "pending" ELSE serverStop
    /\ tunnelStop' = IF tunnel THEN "pending" ELSE tunnelStop
    /\ UNCHANGED <<xvars, qvars, tests, runTask, canceled, config, server, tunnel, sessionSuites, serverStart,
                   tunnelStart, allRejected, runError>>

\* server.stop() resolved: serverEnd is emitted
ServerStopSucceeds ==
    /\ serverStop = "pending"
    /\ serverStop' = "ok"
    /\ log' = Append(log, "serverEnd")
    /\ UNCHANGED <<xvars, qvars, tests, runTask, canceled, config, phase, server, tunnel, sessionSuites,
                   serverStart, tunnelStart, tunnelStop, allRejected,
                   runError>>

\* server.stop() rejected: Promise.all is rejected by its first rejection
ServerStopFails ==
    /\ serverStop = "pending"
    /\ serverStop' = "failed"
    /\ allRejected' = IF allRejected = "none" THEN "server" ELSE allRejected
    /\ UNCHANGED <<xvars, qvars, tests, runTask, canceled, config, phase, server, tunnel, sessionSuites,
                   serverStart, tunnelStart, tunnelStop, runError, log>>

\* tunnel.stop() resolved: tunnelStop is emitted
TunnelStopSucceeds ==
    /\ tunnelStop = "pending"
    /\ tunnelStop' = "ok"
    /\ log' = Append(log, "tunnelStop")
    /\ UNCHANGED <<xvars, qvars, tests, runTask, canceled, config, phase, server, tunnel, sessionSuites,
                   serverStart, tunnelStart, serverStop, allRejected,
                   runError>>

\* tunnel.stop() rejected
TunnelStopFails ==
    /\ tunnelStop = "pending"
    /\ tunnelStop' = "failed"
    /\ allRejected' = IF allRejected = "none" THEN "tunnel" ELSE allRejected
    /\ UNCHANGED <<xvars, qvars, tests, runTask, canceled, config, phase, server, tunnel, sessionSuites,
                   serverStart, tunnelStart, serverStop, runError, log>>

\* Promise.all(promises) settled: when it was rejected the reason is emitted
\* as an 'error' event; the Task of _afterRun resolves either way
AfterRunSettles ==
    /\ phase = "tearingDown"
    /\ \/ /\ allRejected = "none"
          /\ serverStop \in {"none", "ok"}
          /\ tunnelStop \in {"none", "ok"}
          /\ UNCHANGED log
       \/ /\ allRejected = "server"
          /\ log' = Append(log, "error: server.stop")
       \/ /\ allRejected = "tunnel"
          /\ log' = Append(log, "error: tunnel.stop")
    /\ phase' = "done"
    /\ UNCHANGED <<xvars, qvars, tests, runTask, canceled, config, server, tunnel, sessionSuites, serverStart,
                   tunnelStart, serverStop, tunnelStop, allRejected,
                   runError>>

Next ==
    \/ BeforeRun
    \/ ServerStartSucceeds
    \/ ServerStartFails
    \/ Sigint
    \/ CreateTunnel(TRUE)
    \/ CreateTunnel(FALSE)
    \/ SessionSuitesCreated
    \/ StartTunnel
    \/ SessionSuitesFail
    \/ TunnelStartSucceeds
    \/ TunnelStartFails
    \/ RunLocalTests(TRUE)
    \/ RunLocalTests(FALSE)
    \/ LoadFunctionalSuites(TRUE)
    \/ LoadFunctionalSuites(FALSE)
    \/ RunRemoteTests
    \/ \E j \in Jobs : JobSettles(j, "resolved")
    \/ \E j \in Jobs : JobSettles(j, "rejected")
    \/ \E j \in Jobs : ThenCallback(j)
    \/ \E j \in Jobs : FinallyCallback(j)
    \/ RemoteTestsSettle
    \/ RunTaskThen
    \/ RunTaskFinally
    \/ CoverageEmitted
    \/ RunTestsFinally
    \/ RunTestsSettle
    \/ Cancel
    \/ AfterRun
    \/ ServerStopSucceeds
    \/ ServerStopFails
    \/ TunnelStopSucceeds
    \/ TunnelStopFails
    \/ AfterRunSettles

Spec == RInit /\ [][Next]_vars

----------------------------------------------------------------------------
\* Properties of the FunctionQueue (checked under QueueSpec)

\* The jobs whose func() was invoked and whose Task is still pending
Running == {j \in Jobs : job[j] = "running"}

\* C1: as long as only enqueue() calls and job completions happen (clear()
\* was not called), at most maxConcurrency jobs are started and not yet
\* settled, and activeTasks never holds more than maxConcurrency tasks.
C1_ConcurrencyBound ==
    cleared = 0 =>
        /\ Len(activeTasks) <= maxConcurrency
        /\ Cardinality(Running) <= maxConcurrency

\* The bound is reached while a job waits in the backlog
C1_Witness ==
    /\ cleared = 0
    /\ Cardinality(Running) = maxConcurrency
    /\ Len(queue) > 0

\* C2: jobs are started in the order they were enqueued (job ids count the
\* enqueue() calls): the start history is increasing, and every entry that
\* still waits in the backlog was enqueued after every job started so far.
C2_FifoStartOrder ==
    /\ \A a, b \in 1..Len(started) : a < b => started[a] < started[b]
    /\ \A i \in 1..Len(queue) : \A s \in Range(started) : s < queue[i]
    /\ \A a, b \in 1..Len(queue) : a < b => queue[a] < queue[b]

\* Three jobs went through a queue of width 1, so two of them had to wait
C2_Witness ==
    /\ maxConcurrency = 1
    /\ cleared = 0
    /\ Len(started) >= 3

\* C3 (as claimed): clear() starts no job, and a job whose handle was
\* canceled before it was started is never started.
C3_ClearStartsNothing ==
    [][/\ cleared' # cleared => started' = started
       /\ \A j \in Jobs :
            (job[j] = "unstarted" /\ job'[j] # "unstarted")
                => funcTask[j] # "canceled"]_vars

\* C4 (as claimed): when clear() returns no handle is pending, every task
\* that was active has been canceled together with its job, and the
\* backlog, the active list and the handle list are empty.
C4_ClearCancelsEverything ==
    [][cleared' # cleared =>
        /\ \A j \in 1..enqueued : funcTask'[j] # "pending"
        /\ \A j \in Range(activeTasks) :
                chain'[j] = "canceled" /\ job'[j] # "running"
        /\ queue' = <<>>
        /\ activeTasks' = <<>>
        /\ funcTasks' = <<>>]_vars

\* C5: the failure of a job rejects the handle of that job only: a step
\* that rejects a job or a handle changes no other job or handle and leaves
\* the backlog alone, and the completion callback of a failed job promotes
\* the head of the backlog.  A job that resolved has a resolved handle
\* whatever its predecessors did (while clear() is not called).
C5_FailureIsolation ==
    /\ [](\A j \in Jobs :
            (cleared = 0 /\ job[j] = "resolved" /\ chain[j] \in {"handled", "done"})
                => funcTask[j] = "resolved")
    /\ [][\A j \in Jobs :
            /\ (funcTask[j] = "pending" /\ funcTask'[j] = "rejected") =>
                /\ job[j] = "rejected"
                /\ queue' = queue
                /\ \A i \in Jobs \ {j} :
                        funcTask'[i] = funcTask[i] /\ job'[i] = job[i]
            /\ (job[j] = "rejected" /\ chain[j] = "handled" /\ chain'[j] = "done") =>
                /\ \A i \in Jobs \ {j} :
                        /\ funcTask'[i] = funcTask[i]
                        /\ job'[i] = "canceled" => job[i] = "canceled"
                /\ queue # <<>> =>
                        /\ queue' = Tail(queue)
                        /\ job'[Head(queue)] = "running"
                        /\ funcTask'[Head(queue)] = funcTask[Head(queue)]
                /\ \A i \in Range(queue') : i \in Range(queue)]_vars

\* With maxConcurrency 1, J1 failed, J2 ran after it and resolved its handle
C5_Witness ==
    /\ maxConcurrency = 1
    /\ cleared = 0
    /\ job[1] = "rejected"
    /\ funcTask[1] = "rejected"
    /\ job[2] = "resolved"
    /\ funcTask[2] = "resolved"

\* C6: a handle is resolved only if its job resolved and rejected only if
\* its job rejected (so never before the job was started and settled); once
\* the job's callbacks ran the handle has the job's outcome, or is canceled
\* when clear() intervened; a settled handle never changes again.
C6_HandleMirrorsJob ==
    /\ [](\A j \in Jobs :
            /\ funcTask[j] = "resolved" => job[j] = "resolved"
            /\ funcTask[j] = "rejected" => job[j] = "rejected"
            /\ chain[j] \in {"handled", "done"} =>
                    funcTask[j] \in {job[j], "canceled"}
            /\ cleared = 0 => funcTask[j] # "canceled")
    /\ [][\A j \in Jobs :
            funcTask[j] \in {"resolved", "rejected", "canceled"}
                => funcTask'[j] = funcTask[j]]_vars

\* One handle was resolved and another one rejected
C6_Witness ==
    \E i, j \in Jobs : funcTask[i] = "resolved" /\ funcTask[j] = "rejected"

\* C22: while clear() has not been called, a backlog that is not empty
\* means that activeTasks holds exactly maxConcurrency tasks; fewer than
\* maxConcurrency jobs run beside a backlog only while the completion
\* callback of a settled job is still due.
C22_WorkConserving ==
    (cleared = 0 /\ queue # <<>>) =>
        /\ Len(activeTasks) = maxConcurrency
        /\ \A i \in 1..Len(activeTasks) :
                \/ job[activeTasks[i]] = "running"
                \/ chain[activeTasks[i]] \in {"pending", "handled"}

\* A job completed, the head of the backlog was promoted in its place and
\* another job still waits
C22_Witness ==
    /\ cleared = 0
    /\ queue # <<>>
    /\ \E j \in Jobs : chain[j] = "done"
    /\ Len(started) > maxConcurrency
    /\ Cardinality(Running) = maxConcurrency

\* C26: when clear() is never called and every started job settles, each
\* enqueued job is started, once and no more, its handle is resolved or
\* rejected in the end, and the backlog and activeTasks become empty again
\* after whatever was enqueued.
C26_QueueLiveness ==
    /\ [](\A a, b \in 1..Len(started) : a # b => started[a] # started[b])
    /\ \A j \in Jobs :
            /\ (funcTask[j] = "pending") ~> (job[j] # "unstarted")
            /\ (funcTask[j] = "pending")
                    ~> (funcTask[j] \in {"resolved", "rejected"})
    /\ []<>(/\ queue = <<>>
            /\ activeTasks = <<>>
            /\ \A j \in 1..enqueued :
                    /\ Count(started, j) = 1
                    /\ funcTask[j] \in {"resolved", "rejected"})

\* Three jobs went through a queue of width 1, one of them failed, all
\* handles are settled and the queue is empty
C26_Witness ==
    /\ maxConcurrency = 1
    /\ cleared = 0
    /\ enqueued >= 3
    /\ \A j \in 1..enqueued : funcTask[j] \in {"resolved", "rejected"}
    /\ \E j \in 1..enqueued : funcTask[j] = "rejected"
    /\ queue = <<>>
    /\ activeTasks = <<>>

----------------------------------------------------------------------------
\* Properties of the run (checked under Spec)

TornDown == phase \in {"tearingDown", "done"}

\* C7 (as claimed): the steps of teardown are sequential: tunnel.stop() is
\* not called before server.stop() has completed, and serverEnd is never
\* emitted after tunnelStop.
C7_TeardownSequential ==
    /\ Count(log, "tunnel.stop") > 0 /\ Count(log, "server.stop") > 0
            => serverStop \in {"ok", "failed"}
    /\ Count(log, "serverEnd") > 0 /\ Count(log, "tunnelStop") > 0
            => IndexOf(log, "serverEnd") < IndexOf(log, "tunnelStop")

\* C7 (amended): teardown removes the hooks, then calls server.stop(), then
\* calls tunnel.stop(), in that order; each stop event follows the call of
\* its own stop only; and when no stop failed teardown has settled only
\* after the stop event of every resource that was stopped.
C7_TeardownOrder ==
    LET h == IndexOf(log, "removeHooks")
        s == IndexOf(log, "server.stop")
        t == IndexOf(log, "tunnel.stop")
    IN  /\ TornDown => h > 0
        /\ s > 0 => (h > 0 /\ h < s)
        /\ t > 0 => (h > 0 /\ h < t)
        /\ (s > 0 /\ t > 0) => s < t
        /\ TornDown => ((s > 0) = server /\ (t > 0) = tunnel)
        /\ Count(log, "serverEnd") > 0 => (s > 0 /\ s < IndexOf(log, "serverEnd"))
        /\ Count(log, "tunnelStop") > 0 => (t > 0 /\ t < IndexOf(log, "tunnelStop"))
        /\ (phase = "done" /\ allRejected = "none") =>
                /\ server => Count(log, "serverEnd") = 1
                /\ tunnel => Count(log, "tunnelStop") = 1

\* Teardown has settled and serverEnd was emitted after tunnelStop
C7_Witness ==
    /\ phase = "done"
    /\ Count(log, "tunnelStop") = 1
    /\ Count(log, "serverEnd") = 1
    /\ IndexOf(log, "tunnelStop") < IndexOf(log, "serverEnd")

\* C8 (as claimed): once teardown has settled and the stops have finished,
\* every stop was attempted and the error of every stop that failed was
\* emitted as an 'error' event.
C8_TeardownTolerance ==
    (phase = "done" /\ serverStop # "pending" /\ tunnelStop # "pending") =>
        /\ server => Count(log, "server.stop") = 1
        /\ tunnel => Count(log, "tunnel.stop") = 1
        /\ serverStop = "failed" => Count(log, "error: server.stop") = 1
        /\ tunnelStop = "failed" => Count(log, "error: tunnel.stop") = 1

\* C9: server.stop() and tunnel.stop() are never called before teardown
\* and never twice, and in a run whose server started and whose tunnel was
\* constructed each has been called exactly once when teardown has begun,
\* whatever the session suites did.
C9_StoppedExactlyOnce ==
    /\ Count(log, "server.stop") <= 1
    /\ Count(log, "tunnel.stop") <= 1
    /\ ~TornDown =>
            Count(log, "server.stop") = 0 /\ Count(log, "tunnel.stop") = 0
    /\ (TornDown /\ serverStart = "ok" /\ tunnel) =>
            Count(log, "server.stop") = 1 /\ Count(log, "tunnel.stop") = 1

\* Two session suites ran one at a time, one failed and one passed, and the
\* run is over
C9_Witness ==
    /\ phase = "done"
    /\ sessionSuites = 2
    /\ maxConcurrency = 1
    /\ \E i, j \in 1..2 : job[i] = "rejected" /\ job[j] = "resolved"
    /\ Count(log, "server.stop") = 1
    /\ Count(log, "tunnel.stop") = 1

\* C10 (as claimed): in teardown server.stop() is called for a server whose
\* start was attempted and tunnel.stop() for a tunnel that was constructed.
C10_PartialStartReleased ==
    TornDown =>
        /\ serverStart # "none" => Count(log, "server.stop") = 1
        /\ tunnel => Count(log, "tunnel.stop") = 1

\* C11 (as claimed): a cancellation of the run while the remote tests are
\* pending calls queue.clear(), which leaves no session run in flight and
\* starts none, before teardown begins, and the run goes on to teardown.
C11_CancelClearsQueue ==
    [][(~canceled /\ canceled'
            /\ tests \in {"remoteRunning", "runTaskSettled", "thenRan"}) =>
            /\ cleared' = cleared + 1
            /\ Count(log', "queue.clear") = 1
            /\ Count(log', "removeHooks") = 0
            /\ phase' = "afterRun"
            /\ started' = started
            /\ \A j \in Jobs : job'[j] # "running"]_vars

\* C24 (as claimed): once the run was canceled before testTask existed,
\* while the local tests ran or the functional suites were loaded, no
\* session suite is enqueued or started any more.
C24_NoSessionAfterCancel ==
    [][(canceled /\ runTask = "none") =>
            (enqueued' = enqueued /\ started' = started)]_vars

\* C25 (as claimed): in a run that is not canceled, runTask has settled,
\* and Server.stop or Tunnel.stop has been called, only when no session
\* suite is running or waiting in the FunctionQueue.
C25_NoTeardownUnderSessions ==
    (~canceled /\ (\/ runTask \in {"resolved", "rejected"}
                   \/ Count(log, "server.stop") > 0
                   \/ Count(log, "tunnel.stop") > 0)) =>
        (queue = <<>> /\ Running = {})

\* C12: a Server is started if and only if (there are environments and at
\* least one functional suite, suite or browser suite) or serveOnly is set;
\* otherwise no Server is started, no Tunnel is made and no session suites
\* are built.
C12_EntryDecision ==
    LET needed ==
            \/ /\ config.environments > 0
               /\ \/ config.functionalSuites > 0
                  \/ config.suites > 0
                  \/ config.browserSuites > 0
            \/ config.serveOnly
    IN  /\ phase # "beforeRun" => (needed <=> Count(log, "server.start") = 1)
        /\ ~needed =>
                /\ serverStart = "none"
                /\ ~server
                /\ ~tunnel
                /\ sessionSuites = -1
                /\ Count(log, "new Tunnel") = 0
                /\ Count(log, "tunnel.start") = 0

\* A run with environments whose only suites are browser suites built its
\* session suites and is over
C12_Witness ==
    /\ phase = "done"
    /\ ~config.serveOnly
    /\ config.environments > 0
    /\ config.functionalSuites = 0
    /\ config.suites = 0
    /\ config.browserSuites > 0
    /\ sessionSuites > 0

\* C13: with serveOnly the run pauses only after the Server started and
\* serverStart was emitted, it leaves the pause only by SIGINT, and no
\* Tunnel is made or started, no session suites are built, no tests run.
C13_ServeOnly ==
    /\ [](config.serveOnly =>
            /\ ~tunnel
            /\ sessionSuites = -1
            /\ tunnelStart = "none"
            /\ Count(log, "new Tunnel") = 0
            /\ Count(log, "tunnel.start") = 0
            /\ tests = "idle"
            /\ enqueued = 0
            /\ serverStart = "ok" => phase \in {"serveOnly", "afterRun", "tearingDown", "done"}
            /\ phase = "serveOnly" =>
                    /\ server
                    /\ IndexOf(log, "server.start") < IndexOf(log, "serverStart")
                    /\ Count(log, "serverStart") = 1)
    /\ [][(phase = "serveOnly" /\ phase' # "serveOnly") =>
            /\ Count(log', "SIGINT") = 1
            /\ phase' = "afterRun"]_vars

\* A serveOnly run with environments and a functional suite ended by SIGINT
C13_Witness ==
    /\ config.serveOnly
    /\ config.environments > 0
    /\ config.functionalSuites > 0
    /\ Count(log, "SIGINT") = 1
    /\ phase = "done"

\* C14: the Tunnel is made after serverStart was emitted, tunnel.start() is
\* called after the session suites were built, tunnelStart is emitted only
\* after tunnel.start() succeeded, and tunnel.start() is not called when
\* building the session suites failed.
C14_TunnelStartupOrder ==
    /\ Count(log, "new Tunnel") > 0 =>
            /\ serverStart = "ok"
            /\ 0 < IndexOf(log, "serverStart")
            /\ IndexOf(log, "serverStart") < IndexOf(log, "new Tunnel")
    /\ Count(log, "tunnel.start") > 0 =>
            /\ sessionSuites # -1
            /\ 0 < IndexOf(log, "sessionSuites")
            /\ IndexOf(log, "new Tunnel") < IndexOf(log, "sessionSuites")
            /\ IndexOf(log, "sessionSuites") < IndexOf(log, "tunnel.start")
    /\ Count(log, "tunnelStart") > 0 =>
            /\ tunnelStart = "ok"
            /\ IndexOf(log, "tunnel.start") < IndexOf(log, "tunnelStart")
    /\ runError = "sessionSuites" =>
            Count(log, "tunnel.start") = 0 /\ tunnelStart = "none"

\* The tunnel was started and tunnelStart emitted
C14_Witness ==
    /\ Count(log, "tunnelStart") = 1
    /\ tunnelStart = "ok"
    /\ tests = "remoteRunning"

----------------------------------------------------------------------------
\* A session suite: the hooks before() and after() made by
\* _createSessionSuites

\* The FunctionQueue is not used
QIdle ==
    /\ maxConcurrency = 1
    /\ queue = <<>>
    /\ activeTasks = <<>>
    /\ funcTasks = <<>>
    /\ job = [j \in Jobs |-> "unstarted"]
    /\ chain = [j \in Jobs |-> "none"]
    /\ funcTask = [j \in Jobs |-> "none"]
    /\ started = <<>>
    /\ enqueued = 0
    /\ cleared = 0

\* The run is not looked at
LIdle ==
    /\ config = [environments |-> 0, functionalSuites |-> 0, suites |-> 0,
                 browserSuites |-> 0, serveOnly |-> FALSE,
                 functionalCoverage |-> TRUE]
    /\ server = FALSE
    /\ tunnel = FALSE
    /\ sessionSuites = -1
    /\ serverStart = "none"
    /\ tunnelStart = "none"
    /\ serverStop = "none"
    /\ tunnelStop = "none"
    /\ allRejected = "none"
    /\ runError = "none"
    /\ tests = "idle"
    /\ runTask = "none"
    /\ canceled = FALSE
    /\ log = <<>>

\* The values of config.leaveRemoteOpen: true, false and 'fail'
Policies == {"true", "false", "fail"}

\* The parents of the suites 1..n of a tree whose root is suite 1
ParentMaps(n) ==
    {p \in [1..n -> 0..(n - 1)] :
        /\ p[1] = 0
        /\ \A k \in 2..n : p[k] \in 1..(k - 1)}

\* A suite tree: suite.error of each suite and the number of failed tests
\* among the tests that are directly in it
Trees ==
    UNION {[size : {n}, parent : ParentMaps(n), error : [1..n -> BOOLEAN],
            failed : [1..n -> 0..MaxFailed]] : n \in 1..MaxNodes}

\* suite.tests.filter(isSuite)
SubSuites(t, n) == {c \in 1..t.size : t.parent[c] = n}

\* Suite.numFailedTests: the failed tests of the suite and of its sub-suites
RECURSIVE numFailedTests(_, _)
numFailedTests(t, n) ==
    LET RECURSIVE sum(_)
        sum(S) ==
            IF S = {} THEN 0
            ELSE LET c == CHOOSE x \in S : TRUE
                 IN  numFailedTests(t, c) + sum(S \ {c})
    IN  t.failed[n] + sum(SubSuites(t, n))

hasError_shallow(t, n) ==
    t.error[n] \/ numFailedTests(t, n) > 0

\* hasError(suite) in after()
RECURSIVE hasError(_, _)
hasError(t, n) ==
    IF t.error[n] \/ numFailedTests(t, n) > 0
    THEN TRUE
    ELSE \E c \in SubSuites(t, n) : hasError(t, c)

\* endSession(): the job state is sent to the tunnel; l is the history
\* up to the call
endSession(l) ==
    /\ slog' = Append(l, "sendJobState")
    /\ reported' = Append(reported, [id |-> sessionId,
                                     success |-> ~hasError(suite, 1)])

SInit ==
    /\ QIdle
    /\ LIdle
    /\ phase = "sessionOnly"
    /\ suite = [size |-> 0, parent |-> <<>>, error |-> <<>>, failed |-> <<>>]
    /\ leaveRemoteOpen \in Policies
    /\ session = "none"
    /\ remote = FALSE
    /\ sessionId = 0
    /\ sphase = "before"
    /\ slog = <<>>
    /\ afterRemote = FALSE
    /\ reported = <<>>
    /\ CIdle
    /\ HIdle

\* before(): leadfootServer.createSession() is called and the promise of
\* its callback returned
Before ==
    /\ sphase = "before"
    /\ slog' = Append(slog, "createSession")
    /\ session' = "pending"
    /\ sphase' = "creatingSession"
    /\ UNCHANGED <<qvars, lvars, cvars, hvars, suite, leaveRemoteOpen, remote,
                   sessionId, afterRemote, reported>>

\* createSession() settled.  Resolved, the callback in before() sets
\* suite.remote and suite.sessionId, whenever that is; rejected, nothing
\* is set.  A suite that still waits for before() goes on to its tests,
\* or, before() having failed, has an error and runs none of its tests
SessionCreated(ok) ==
    /\ session = "pending"
    /\ session' = IF ok THEN "resolved" ELSE "rejected"
    /\ IF ok
       THEN /\ remote' = TRUE
            /\ \E id \in 1..MaxSessions : sessionId' = id
       ELSE UNCHANGED <<remote, sessionId>>
    /\ IF sphase # "creatingSession" THEN UNCHANGED <<suite, sphase>>
       ELSE IF ok THEN sphase' = "tests" /\ UNCHANGED suite
       ELSE /\ suite' = [size |-> 1, parent |-> <<0>>, error |-> <<TRUE>>,
                         failed |-> <<0>>]
            /\ sphase' = "after"
    /\ UNCHANGED <<qvars, lvars, cvars, hvars, leaveRemoteOpen, slog,
                   afterRemote, reported>>

\* The tests and the sub-suites of the session suite ran
SuiteRuns ==
    /\ sphase = "tests"
    /\ \E t \in Trees : suite' = t
    /\ sphase' = "after"
    /\ UNCHANGED <<qvars, lvars, cvars, hvars, leaveRemoteOpen, session,
                   remote, sessionId, slog, afterRemote, reported>>

After_leaveOpenOnError ==
    /\ sphase \in {"creatingSession", "after"}
    /\ afterRemote' = remote
    /\ IF ~remote
       THEN /\ sphase' = "done"
            /\ UNCHANGED <<slog, reported>>
       ELSE IF \/ leaveRemoteOpen = "true"
               \/ leaveRemoteOpen = "fail" /\ hasError(suite, 1)
            THEN /\ endSession(slog)
                 /\ sphase' = "done"
            ELSE /\ slog' = Append(slog, "quit")
                 /\ sphase' = "quitting"
                 /\ UNCHANGED reported
    /\ UNCHANGED <<qvars, lvars, cvars, hvars, suite, leaveRemoteOpen,
                   session, remote, sessionId>>

After_reportFirst ==
    /\ sphase \in {"creatingSession", "after"}
    /\ afterRemote' = remote
    /\ IF ~remote
       THEN /\ sphase' = "done"
            /\ UNCHANGED <<slog, reported>>
       ELSE IF \/ leaveRemoteOpen = "true"
               \/ leaveRemoteOpen = "fail" /\ numFailedTests(suite, 1) > 0
            THEN /\ endSession(slog)
                 /\ sphase' = "done"
            ELSE /\ slog' = slog \o <<"sendJobState", "quit">>
                 /\ reported' = Append(reported,
                                       [id |-> sessionId,
                                        success |-> ~hasError(suite, 1)])
                 /\ sphase' = "quitting"
    /\ UNCHANGED <<qvars, lvars, cvars, hvars, suite, leaveRemoteOpen,
                   session, remote, sessionId>>

\* after(): remote = this.remote; nothing is done without a remote, as
\* when after() is called while createSession() is pending; the job state
\* is sent at once when the remote is left open; else remote.quit() is
\* called
After ==
    /\ sphase \in {"creatingSession", "after"}
    /\ afterRemote' = remote
    /\ IF ~remote
       THEN /\ sphase' = "done"
            /\ UNCHANGED <<slog, reported>>
       ELSE IF \/ leaveRemoteOpen = "true"
               \/ leaveRemoteOpen = "fail" /\ numFailedTests(suite, 1) > 0
            THEN /\ endSession(slog)
                 /\ sphase' = "done"
            ELSE /\ slog' = Append(slog, "quit")
                 /\ sphase' = "quitting"
                 /\ UNCHANGED reported
    /\ UNCHANGED <<qvars, lvars, cvars, hvars, suite, leaveRemoteOpen,
                   session, remote, sessionId>>

QuitSettles_onlyOnSuccess(ok) ==
    /\ sphase = "quitting"
    /\ IF ok
       THEN endSession(Append(slog, "quit resolved"))
       ELSE /\ slog' = Append(slog, "quit rejected")
            /\ UNCHANGED reported
    /\ sphase' = "done"
    /\ UNCHANGED <<qvars, lvars, cvars, hvars, suite, leaveRemoteOpen,
                   session, remote, sessionId, afterRemote>>

\* remote.quit() settled: finally(endSession) runs on either outcome
QuitSettles(ok) ==
    /\ sphase = "quitting"
    /\ endSession(Append(slog, IF ok THEN "quit resolved"
                                     ELSE "quit rejected"))
    /\ sphase' = "done"
    /\ UNCHANGED <<qvars, lvars, cvars, hvars, suite, leaveRemoteOpen,
                   session, remote, sessionId, afterRemote>>

SNext ==
    \/ Before
    \/ \E ok \in BOOLEAN : SessionCreated(ok)
    \/ SuiteRuns
    \/ After
    \/ \E ok \in BOOLEAN : QuitSettles(ok)

SessionSpec == SInit /\ [][SNext]_vars

\* The remote was closed: remote.quit() was called
Closed == Count(slog, "quit") > 0

\* C15: the verdict sent for a session suite is success = false exactly
\* when some suite of the tree, the root or a descendant at any depth, has
\* a suite error or a failed test of its own.
C15_ErrorAggregation ==
    \A i \in 1..Len(reported) :
        reported[i].success =
            ~(\E n \in 1..suite.size : suite.error[n] \/ suite.failed[n] > 0)

\* A root without an error of its own and a grandchild with one failed
\* test: failure was reported
C15_Witness ==
    /\ Len(reported) = 1
    /\ suite.size = 3
    /\ suite.parent = <<0, 1, 2>>
    /\ suite.error = <<FALSE, FALSE, FALSE>>
    /\ suite.failed = <<0, 0, 1>>
    /\ reported[1].success = FALSE

\* C16 as stated: when the teardown of a session suite that found a remote
\* is over, the remote was not closed exactly when leaveRemoteOpen is true,
\* or it is 'fail' and the tree has a suite error or a failed test.
C16_LeaveOpenOnError ==
    (sphase = "done" /\ afterRemote) =>
        (~Closed <=> \/ leaveRemoteOpen = "true"
                     \/ /\ leaveRemoteOpen = "fail"
                        /\ \E n \in 1..suite.size :
                                suite.error[n] \/ suite.failed[n] > 0)

\* C16: when the teardown of a session suite that found a remote is over,
\* the remote was not closed exactly when leaveRemoteOpen is true, or it is
\* 'fail' and the tree has a failed test; suite errors do not count.
C16_LeaveOpenOnFailedTest ==
    (sphase = "done" /\ afterRemote) =>
        (~Closed <=> \/ leaveRemoteOpen = "true"
                     \/ /\ leaveRemoteOpen = "fail"
                        /\ \E n \in 1..suite.size : suite.failed[n] > 0)

\* Under 'fail' a tree whose only defect is a suite error had its remote
\* closed
C16_Witness ==
    /\ sphase = "done"
    /\ afterRemote
    /\ leaveRemoteOpen = "fail"
    /\ \E n \in 1..suite.size : suite.error[n]
    /\ \A n \in 1..suite.size : suite.failed[n] = 0
    /\ Closed

\* C17 as stated: whenever remote.quit() was called, the job state had
\* been sent to the tunnel before.
C17_VerdictBeforeClose ==
    Closed =>
        /\ 0 < IndexOf(slog, "sendJobState")
        /\ IndexOf(slog, "sendJobState") < IndexOf(slog, "quit")

\* C17: in a teardown that closes the remote, remote.quit() is called
\* first and the job state is sent only after quit settled, resolved or
\* rejected.
C17_VerdictAfterClose ==
    Closed =>
        /\ sphase = "quitting" =>
                Count(slog, "sendJobState") = 0 /\ reported = <<>>
        /\ Count(slog, "sendJobState") > 0 =>
                \E i \in 1..Len(slog) :
                    /\ slog[i] \in {"quit resolved", "quit rejected"}
                    /\ IndexOf(slog, "quit") < i
                    /\ i < IndexOf(slog, "sendJobState")

\* The remote was closed and the job state sent after that
C17_Witness ==
    /\ sphase = "done"
    /\ Closed
    /\ Count(slog, "quit resolved") = 1
    /\ Len(reported) = 1

\* C18: a session suite whose before() made a remote, which its after()
\* found, has sent exactly one job state when its teardown is over, under
\* the session's identifier, whatever leaveRemoteOpen is and whether quit
\* resolved or rejected; no more than one is ever sent, and none by a
\* teardown that found no remote.
C18_VerdictAlwaysReported ==
    /\ Len(reported) <= 1
    /\ Count(slog, "sendJobState") = Len(reported)
    /\ \A i \in 1..Len(reported) :
            /\ afterRemote
            /\ session = "resolved"
            /\ reported[i].id = sessionId
    /\ (sphase = "done" /\ afterRemote) => Len(reported) = 1

\* quit rejected and the job state was sent all the same
C18_Witness ==
    /\ sphase = "done"
    /\ afterRemote
    /\ Count(slog, "quit rejected") = 1
    /\ Len(reported) = 1
    /\ reported[1].id = sessionId

----------------------------------------------------------------------------
\* Coverage: the coverage map, instrumentCode and the callback that
\* completes the map when the tests are over

\* config.coverage after expandFiles: paths without repetition
CoverageConfigs ==
    {c \in UNION {[1..n -> RawPaths] : n \in 0..Cardinality(RawPaths)} :
        \A i, k \in 1..Len(c) : i # k => c[i] # c[k]}

\* message.coverage of a 'coverage' event: the files it has records of
Payloads == SUBSET Files \ {{}}

\* CoverageMap.addFileCoverage: the map holds the file afterwards
addFileCoverage(map, f) == map \cup {f}

\* CoverageMap.merge: the map holds every file of the payload afterwards
merge(map, p) == map \cup p

\* The state instrumentCode and the callback of _runTests work on
Coverage ==
    [map |-> coverageMap, maps |-> instrumentedMaps, warnings |-> warnings,
     baselines |-> baselines, attempts |-> attempts, returned |-> returned,
     threw |-> FALSE]

SetCoverage(w) ==
    /\ coverageMap' = w.map
    /\ instrumentedMaps' = w.maps
    /\ warnings' = w.warnings
    /\ baselines' = w.baselines
    /\ attempts' = w.attempts
    /\ returned' = w.returned

\* The text of a file, and the text the instrumenter makes of it
code(f) == <<"source", f>>

instrumentSync(f) == <<"instrumented", normalize(f)>>

instrumentCode_registerOnFailure(w, f) ==
    IF fileKind[f] = "badSourceMap"
    THEN [w EXCEPT !.threw = TRUE]
    ELSE IF fileKind[f] = "badCode"
    THEN [w EXCEPT !.warnings = Append(@, f),
                   !.maps = @ \cup {f},
                   !.returned = Append(@, [file |-> f, code |-> code(f)])]
    ELSE [w EXCEPT !.map = addFileCoverage(@, normalize(f)),
                   !.maps = @ \cup {f},
                   !.returned = Append(@, [file |-> f,
                                           code |-> instrumentSync(f)]),
                   !.baselines = Append(@, normalize(f))]

\* instrumentCode(code, filename): readSourceMap may throw; a failure of
\* the instrumenter is caught and a warning emitted; else the baseline of
\* the file goes to the coverage map and its source map is registered
instrumentCode(w, f) ==
    IF fileKind[f] = "badSourceMap"
    THEN [w EXCEPT !.threw = TRUE]
    ELSE IF fileKind[f] = "badCode"
    THEN [w EXCEPT !.warnings = Append(@, f),
                   !.returned = Append(@, [file |-> f, code |-> code(f)])]
    ELSE [w EXCEPT !.map = addFileCoverage(@, normalize(f)),
                   !.maps = @ \cup {f},
                   !.returned = Append(@, [file |-> f,
                                           code |-> instrumentSync(f)]),
                   !.baselines = Append(@, normalize(f))]

shouldInstrumentFile(f) ==
    \E i \in 1..Len(coverageFiles) : coverageFiles[i] = f

tryInstrument_noCatch(w, f) ==
    LET a == [w EXCEPT !.attempts = Append(@, f)]
    IN  IF fileKind[f] = "unreadable"
        THEN [a EXCEPT !.threw = TRUE]
        ELSE instrumentCode(a, f)

\* The body of uncoveredFiles.forEach: the file is read and instrumented
\* and whatever is thrown is caught
tryInstrument(w, f) ==
    LET a == [w EXCEPT !.attempts = Append(@, f)]
    IN  IF fileKind[f] = "unreadable"
        THEN a
        ELSE [instrumentCode(a, f) EXCEPT !.threw = FALSE]

\* uncoveredFiles.forEach from index i on; an exception ends the loop
RECURSIVE forEachUncovered(_, _, _)
forEachUncovered(w, fs, i) ==
    IF i > Len(fs) \/ w.threw
    THEN w
    ELSE forEachUncovered(tryInstrument(w, fs[i]), fs, i + 1)

\* this._coverageFiles.filter(...): the files that are not in coveredFiles
uncoveredFiles(fs, covered) ==
    SelectSeq(fs, LAMBDA f : f \notin covered)

\* The hooks of the loader and the function stored to remove one of them
Hooks ==
    [vmHook |-> vmHook, requireHook |-> requireHook,
     unhookRequire |-> unhookRequire, unhookCalls |-> unhookCalls]

SetHooks(h) ==
    /\ vmHook' = h.vmHook
    /\ requireHook' = h.requireHook
    /\ unhookRequire' = h.unhookRequire
    /\ unhookCalls' = h.unhookCalls

\* get hasCoveredFiles
hasCoveredFiles == Len(coverageFiles) > 0

\* _setInstrumentationHooks(): both hooks are installed and the function
\* hookRequire returned is stored
setInstrumentationHooks(h) ==
    [h EXCEPT !.vmHook = TRUE, !.requireHook = TRUE, !.unhookRequire = TRUE]

removeInstrumentationHooks_keepsFunction(h) ==
    IF h.unhookRequire
    THEN [h EXCEPT !.vmHook = FALSE, !.requireHook = FALSE,
                   !.unhookCalls = @ + 1]
    ELSE [h EXCEPT !.vmHook = FALSE]

\* _removeInstrumentationHooks(): unhookRunInThisContext() is called; the
\* stored function, if there is one, is called and forgotten
removeInstrumentationHooks(h) ==
    IF h.unhookRequire
    THEN [h EXCEPT !.vmHook = FALSE, !.requireHook = FALSE,
                   !.unhookCalls = @ + 1, !.unhookRequire = FALSE]
    ELSE [h EXCEPT !.vmHook = FALSE]

CInit ==
    /\ QIdle
    /\ LIdle
    /\ phase = "coverageOnly"
    /\ SIdle
    /\ \E c \in CoverageConfigs :
            coverageFiles = [i \in 1..Len(c) |-> resolve(c[i])]
    /\ coverageMap = {}
    /\ instrumentedMaps = {}
    /\ fileKind \in [Files -> Kinds]
    /\ loaded = {}
    /\ warnings = <<>>
    /\ coveredFiles = {}
    /\ attempts = <<>>
    /\ baselines = <<>>
    /\ events = 0
    /\ directCalls = 0
    /\ cphase = "loadSuites"
    /\ testsResult = "pending"
    /\ testsOutcome = "pending"
    /\ returned = <<>>
    /\ HIdle

\* _loadSuites(): the hooks are set when there are coverage files, then
\* the suites are loaded
LoadSuites ==
    /\ cphase = "loadSuites"
    /\ SetHooks(IF hasCoveredFiles THEN setInstrumentationHooks(Hooks)
                ELSE Hooks)
    /\ cphase' = "running"
    /\ UNCHANGED <<qvars, lvars, svars, cvars_but_cphase, removals>>

\* The loader loads a file, at any time: while the hook of require is
\* installed the text of a coverage file is instrumented, and what
\* instrumentCode throws ends the load
LoadFile(f) ==
    /\ f \notin loaded
    /\ fileKind[f] # "unreadable"
    /\ loaded' = loaded \cup {f}
    /\ IF requireHook /\ shouldInstrumentFile(f)
       THEN SetCoverage(instrumentCode(Coverage, f))
       ELSE UNCHANGED <<coverageMap, instrumentedMaps, warnings, baselines,
                        attempts, returned>>
    /\ UNCHANGED <<qvars, lvars, svars, hvars, coverageFiles, fileKind,
                   coveredFiles, events, directCalls, cphase, testsResult,
                   testsOutcome>>

\* Another caller of instrumentCode(code, filename), at any time, with the
\* text of a file it read, whether or not it is a coverage file and
\* whether or not the hooks are installed
InstrumentCode(f) ==
    /\ directCalls < MaxCalls
    /\ fileKind[f] # "unreadable"
    /\ directCalls' = directCalls + 1
    /\ SetCoverage(instrumentCode(Coverage, f))
    /\ UNCHANGED <<qvars, lvars, svars, hvars, coverageFiles, fileKind,
                   loaded, coveredFiles, events, cphase, testsResult,
                   testsOutcome>>

\* The listener of 'coverage', registered in the constructor:
\* message.coverage is merged into the map, at any time
CoverageEvent(p) ==
    /\ events < MaxPayloads
    /\ events' = events + 1
    /\ coverageMap' = merge(coverageMap, p)
    /\ UNCHANGED <<qvars, lvars, svars, hvars, coverageFiles,
                   instrumentedMaps, fileKind, loaded, warnings,
                   coveredFiles, attempts, baselines, directCalls, cphase,
                   testsResult, testsOutcome, returned>>

\* The callback of then(resolve, reject) settles the Task made in
\* _runTests with outcome o; the Task that _runTests returned is pending
TestsSettled(o) ==
    /\ cphase = "running"
    /\ testsResult = "pending"
    /\ testsResult' = o
    /\ UNCHANGED <<qvars, lvars, svars, hvars, coverageFiles, coverageMap,
                   instrumentedMaps, fileKind, loaded, warnings,
                   coveredFiles, attempts, baselines, events, directCalls,
                   cphase, testsOutcome,
                   returned>>

\* The callback of finally() runs behind the settled Task: it instruments
\* the coverage files the map lacks.  An exception that left the callback
\* would reject the Task that _runTests returned
TestsFinish ==
    /\ cphase = "running"
    /\ testsResult \in {"resolved", "rejected"}
    /\ coveredFiles' = coverageMap
    /\ LET w == forEachUncovered(Coverage,
                    uncoveredFiles(coverageFiles, coverageMap), 1)
       IN  /\ SetCoverage(w)
           /\ testsOutcome' = IF w.threw THEN "rejected" ELSE testsOutcome
    /\ cphase' = "done"
    /\ UNCHANGED <<qvars, lvars, svars, hvars, coverageFiles, fileKind,
                   loaded, events, directCalls, testsResult>>

\* The Task that _runTests returned settles as the Task made in _runTests
\* did
ReturnedTaskSettles ==
    /\ cphase = "done"
    /\ testsOutcome = "pending"
    /\ testsOutcome' = testsResult
    /\ UNCHANGED <<qvars, lvars, svars, hvars, coverageFiles, coverageMap,
                   instrumentedMaps, fileKind, loaded, warnings,
                   coveredFiles, attempts, baselines, events, directCalls,
                   cphase, testsResult,
                   returned>>

\* cancel() of the Task that _runTests returned, before the callback of
\* its finally() ran: the Task made in _runTests is canceled if it was
\* pending and keeps its outcome if it had settled; the returned Task is
\* canceled and the callback of finally() runs inside cancel(), where an
\* exception that left it would be ignored
CancelTests ==
    /\ cphase = "running"
    /\ testsResult' = IF testsResult = "pending" THEN "canceled"
                      ELSE testsResult
    /\ coveredFiles' = coverageMap
    /\ SetCoverage(forEachUncovered(Coverage,
                        uncoveredFiles(coverageFiles, coverageMap), 1))
    /\ testsOutcome' = "canceled"
    /\ cphase' = "done"
    /\ UNCHANGED <<qvars, lvars, svars, hvars, coverageFiles, fileKind,
                   loaded, events, directCalls>>

\* _afterRun, or any caller after it: _removeInstrumentationHooks().  The
\* run is torn down once the Task that _runTests returned has settled, or
\* without the tests when the suites could not be loaded or _beforeRun
\* failed
RemoveInstrumentationHooks ==
    /\ \/ cphase = "running" /\ testsResult = "pending"
       \/ cphase = "done" /\ testsOutcome # "pending"
       \/ cphase = "tornDown"
    /\ removals < MaxRemovals
    /\ removals' = removals + 1
    /\ SetHooks(removeInstrumentationHooks(Hooks))
    /\ cphase' = "tornDown"
    /\ UNCHANGED <<qvars, lvars, svars, cvars_but_cphase>>

CNext ==
    \/ LoadSuites
    \/ RemoveInstrumentationHooks
    \/ \E f \in Files : LoadFile(f)
    \/ \E f \in Files : InstrumentCode(f)
    \/ \E p \in Payloads : CoverageEvent(p)
    \/ \E o \in {"resolved", "rejected"} : TestsSettled(o)
    \/ TestsFinish
    \/ ReturnedTaskSettles
    \/ CancelTests

CoverageSpec == CInit /\ [][CNext]_vars

\* C19: when the tests are over, with any outcome, every coverage file
\* that was not in the coverage map got an attempt to read it, in the
\* order of the coverage files and whatever happened to the files before
\* it; the Task that _runTests returned ends, once it has settled, as the
\* tests ended, or canceled; and every coverage file that can be read and
\* instrumented is in the coverage map.
C19_CoverageCompletion ==
    cphase = "done" =>
        /\ attempts = uncoveredFiles(coverageFiles, coveredFiles)
        /\ testsResult \in {"resolved", "rejected", "canceled"}
        /\ testsOutcome \in {"pending", "canceled", testsResult}
        /\ \A i \in 1..Len(coverageFiles) :
                fileKind[coverageFiles[i]] = "ok" =>
                    coverageFiles[i] \in coverageMap

\* The tests were canceled; readSourceMap threw on the first uncovered
\* file, and the file after it was instrumented and is in the map
C19_Witness ==
    /\ cphase = "done"
    /\ testsOutcome = "canceled"
    /\ Len(attempts) >= 2
    /\ fileKind[attempts[1]] = "badSourceMap"
    /\ fileKind[attempts[2]] = "ok"
    /\ attempts[2] \notin coveredFiles
    /\ attempts[2] \in coverageMap

\* The results instrumentCode returned for file f
ReturnedFor(f) == {returned[i].code : i \in {k \in 1..Len(returned) :
                                                returned[k].file = f}}

\* C23: for a file the instrumenter fails on, every instrumentCode call,
\* of the hook, of the callback of _runTests or of another caller, emitted
\* one warning and returned the text it was given, no baseline of the file
\* was put into the coverage map and no map of it was registered; for a
\* file the instrumenter succeeds on, no warning was emitted and every
\* call returned the instrumented text and put one baseline into the
\* coverage map, after which the file is in the map and its map is
\* registered.
C23_InstrumentFailureContained ==
    \A f \in Files :
        LET calls == Cardinality({k \in 1..Len(returned) :
                                    returned[k].file = f})
        IN  /\ fileKind[f] = "badCode" =>
                    /\ Count(warnings, f) = calls
                    /\ ReturnedFor(f) \subseteq {code(f)}
                    /\ Count(baselines, normalize(f)) = 0
                    /\ f \notin instrumentedMaps
            /\ fileKind[f] = "ok" =>
                    /\ Count(warnings, f) = 0
                    /\ ReturnedFor(f) \subseteq {instrumentSync(f)}
                    /\ Count(baselines, normalize(f)) = calls
                    /\ calls > 0 =>
                            /\ normalize(f) \in coverageMap
                            /\ f \in instrumentedMaps

\* The instrumenter failed on one file in two calls, one of them of
\* another caller, and succeeded on the other file
C23_Witness ==
    \E f, g \in Files :
        /\ fileKind[f] = "badCode"
        /\ directCalls = 1
        /\ Count(warnings, f) = 2
        /\ ReturnedFor(f) = {code(f)}
        /\ f \notin coverageMap
        /\ fileKind[g] = "ok"
        /\ ReturnedFor(g) = {instrumentSync(g)}
        /\ g \in coverageMap
        /\ g \in instrumentedMaps

\* C21: hooks are installed only when there are coverage files; once the
\* run is torn down _removeInstrumentationHooks ran at least once and no
\* hook is installed; and however often it is called, the stored function
\* that removes the hook of require is called once if the hooks were
\* installed and never otherwise.
C21_HookRemoval ==
    /\ (vmHook \/ requireHook \/ unhookRequire \/ unhookCalls > 0)
            => hasCoveredFiles
    /\ requireHook <=> unhookRequire
    /\ unhookCalls <= 1
    /\ cphase = "tornDown" =>
            /\ removals >= 1
            /\ ~vmHook
            /\ ~requireHook
            /\ ~unhookRequire
            /\ unhookCalls = IF hasCoveredFiles THEN 1 ELSE 0

\* The hooks were installed and removal ran twice: the stored function
\* was called once
C21_Witness ==
    /\ cphase = "tornDown"
    /\ hasCoveredFiles
    /\ removals = 2
    /\ unhookCalls = 1
    /\ ~requireHook

====
